---- MODULE Spec2Model ----
(***************************************************************************)
(* Model of the multi-agent debate system: role assignment, solution       *)
(* generation, peer review, judgment and the run_debate coordinator.       *)
(*                                                                         *)
(* Participant "gemini-k" is the integer k.  Confidences are integers in   *)
(* hundredths (0.7 is 70).  A Python dict is a sequence of [k, v] entries  *)
(* in insertion order, because the code iterates dicts and relies on the   *)
(* stability of list.sort.                                                 *)
(***************************************************************************)
EXTENDS Integers, Sequences, FiniteSets, TLC

VARIABLES
    pc,           \* position of the operation under way
    problem,      \* problem run_debate works on: "none", "loaded", "substituted"
    use_mock,     \* LLMClient.use_mock_mode
    preferences,  \* dict participant -> RolePreference, in insertion order
    roles,        \* outcome of role assignment
    solutions,    \* dict solver -> Solution, in insertion order
    reviews,      \* dict solver -> list of PeerReview, in insertion order
    response,     \* text handed to the parser of the operation under way
    judgment,     \* outcome of the judge operation
    calls,        \* participant calls issued so far: [stage, who, returned]
    raised,       \* exception that ended the operation, "none" if none
    result,       \* DebateResult returned by run_debate, NoResult if none
    refined_solutions,  \* dict solver -> RefinedSolution, in insertion order
    checked       \* the answer check: predicted answer, ground truth, verdict

vars == <<pc, problem, use_mock, preferences, roles, solutions, reviews, response,
          judgment, calls, raised, result, refined_solutions, checked>>

----------------------------------------------------------------------------
(* Bounds *)

MaxPool == 5          \* largest participant pool handed to role assignment
MaxLines == 2         \* most labelled lines in a text-format judge response
MaxSolvers == 3       \* most solvers handed to peer review

----------------------------------------------------------------------------
(* Generic helpers for dicts kept as sequences of entries *)

Keys(d) == {d[i].k : i \in 1..Len(d)}

KeyList(d) == [i \in 1..Len(d) |-> d[i].k]

Lookup(d, key) == (CHOOSE i \in 1..Len(d) : d[i].k = key)

Value(d, key) == d[Lookup(d, key)].v

\* dict.get(key, default) on a function-valued dict
Get(f, key, default) == IF key \in DOMAIN f THEN f[key] ELSE default

----------------------------------------------------------------------------
(* Role assignment: src/role_assignment.py *)

JudgeThreshold == 70

\* a confidence that is not a number (a JSON string such as "high")
NonNumeric == -1

IsNumber(x) == x # NonNumeric

\* comparing a str with a float raises TypeError
Comparable(x, y) == IsNumber(x) = IsNumber(y)

\* list.sort(key=lambda x: x[1]) : stable, ascending
RECURSIVE SortAscending(_)
SortAscending(s) ==
    IF Len(s) <= 1 THEN s
    ELSE LET rest == SortAscending(SubSeq(s, 1, Len(s) - 1))
             x    == s[Len(s)]
             \* x goes after every element whose key is <= its own
             before == {i \in 1..Len(rest) : rest[i].score <= x.score}
             cut  == IF before = {} THEN 0
                     ELSE CHOOSE i \in before : \A j \in before : j <= i
         IN SubSeq(rest, 1, cut) \o <<x>> \o SubSeq(rest, cut + 1, Len(rest))

\* list.sort(key=lambda x: x[1], reverse=True) : stable, descending
RECURSIVE SortDescending(_)
SortDescending(s) ==
    IF Len(s) <= 1 THEN s
    ELSE LET rest == SortDescending(SubSeq(s, 1, Len(s) - 1))
             x    == s[Len(s)]
             before == {i \in 1..Len(rest) : rest[i].score >= x.score}
             cut  == IF before = {} THEN 0
                     ELSE CHOOSE i \in before : \A j \in before : j <= i
         IN SubSeq(rest, 1, cut) \o <<x>> \o SubSeq(rest, cut + 1, Len(rest))

\* a sort over scores of mixed types compares a str with a float
SortRaises(s) == \E i, j \in 1..Len(s) : ~Comparable(s[i].score, s[j].score)

Head3(s) == SubSeq(s, 1, IF Len(s) < 3 THEN Len(s) ELSE 3)

SelectSeqNot(s, x) == SelectSeq(s, LAMBDA n : n # x)

NoRoles == [status |-> "none", judge |-> 0, solvers |-> <<>>]

MinPool == 4

IsJudgeCandidate(pref) ==
    /\ "Judge" \in pref.preferred_roles
    /\ Get(pref.confidence_by_role, "Judge", 0) > JudgeThreshold

\* the test of line 95 compares the Judge confidence with 0.7
CandidateTestRaises(pref) ==
    /\ "Judge" \in pref.preferred_roles
    /\ ~IsNumber(Get(pref.confidence_by_role, "Judge", 0))

\* mutant: the size test lets a pool of three through
PoolTooSmall_Three(llm_names) == Len(llm_names) < 3

\* lines 88-89: fewer than four participants is a ValueError
PoolTooSmall(llm_names) == Len(llm_names) < MinPool

\* mutant: the judge is not removed from the sorted candidates
FallbackSolvers_KeepJudge(all_candidates) ==
    Head3([i \in 1..Len(all_candidates) |-> all_candidates[i].name])

\* lines 119-122: everyone after the judge, cut to three
FallbackSolvers(all_candidates) ==
    Head3([i \in 1..Len(Tail(all_candidates)) |-> Tail(all_candidates)[i].name])

\* mutant: the sorted judge candidates are read from the wrong end
TopCandidate_Last(judge_candidates) ==
    SortDescending(judge_candidates)[Len(judge_candidates)].name

\* lines 105-106: the first candidate after the descending sort
TopCandidate(judge_candidates) == SortDescending(judge_candidates)[1].name

\* mutant: the sorted fallback candidates are read from the wrong end
FallbackJudge_Last(all_candidates) == all_candidates[Len(all_candidates)].name

\* line 118: the first of the candidates sorted by Solver confidence
FallbackJudge(all_candidates) == all_candidates[1].name

assign_roles_deterministic(prefs) ==
    LET llm_names == KeyList(prefs)
        idx == 1..Len(prefs)
        judge_candidates ==
            LET pick(e) == IsJudgeCandidate(e.v)
                sel == SelectSeq(prefs, pick)
            IN [i \in 1..Len(sel) |->
                   [name |-> sel[i].k,
                    score |-> Get(sel[i].v.confidence_by_role, "Judge", 0)]]
        SolverScore(n) == Get(Value(prefs, n).confidence_by_role, "Solver", 0)
        Scored(names) == [i \in 1..Len(names) |->
                            [name |-> names[i], score |-> SolverScore(names[i])]]
        Names(c) == [i \in 1..Len(c) |-> c[i].name]
    IN
    IF PoolTooSmall(llm_names)
    THEN [status |-> "ValueError", judge |-> 0, solvers |-> <<>>]
    ELSE IF \E i \in idx : CandidateTestRaises(prefs[i].v)
    THEN [status |-> "TypeError", judge |-> 0, solvers |-> <<>>]
    ELSE IF Len(judge_candidates) > 0
    THEN LET judge == TopCandidate(judge_candidates)
             solver_names == SelectSeqNot(llm_names, judge)
         IN IF Len(solver_names) > 3
            THEN IF SortRaises(Scored(solver_names))
                 THEN [status |-> "TypeError", judge |-> 0, solvers |-> <<>>]
                 ELSE [status |-> "ok", judge |-> judge,
                       solvers |-> Head3(Names(SortDescending(Scored(solver_names))))]
            ELSE [status |-> "ok", judge |-> judge, solvers |-> solver_names]
    ELSE IF SortRaises(Scored(llm_names))
    THEN [status |-> "TypeError", judge |-> 0, solvers |-> <<>>]
    ELSE LET all_candidates == SortAscending(Scored(llm_names))
         IN [status |-> "ok", judge |-> FallbackJudge(all_candidates),
             solvers |-> FallbackSolvers(all_candidates)]

----------------------------------------------------------------------------
(* The invocation collaborator: src/llm_client.py *)

\* _get_mock_response picks its text by substrings of the prompt; the
\* refinement prompt ("Peer reviews:") and the judgment prompt
\* ("peer_reviews") both contain "review" and get the review JSON.
MockForm(stage) ==
    CASE stage = "preference" -> "mock_preference"
      [] stage = "solution"   -> "mock_solution"
      [] OTHER                -> "mock_review"

\* lines 87-103: the provider is called and raises
ProviderFailed(mock_mode, provider) == ~mock_mode /\ provider.form = "raise"

\* call_llm: the mock text in mock mode or when the provider raises,
\* otherwise the provider's text
call_llm(mock_mode, stage, provider) ==
    IF mock_mode \/ provider.form = "raise"
    THEN [form |-> MockForm(stage)]
    ELSE provider

----------------------------------------------------------------------------
(* Judgment: src/judgment.py *)

\* values a parsed field can take besides participant ids and numbers
EmptyString == 0
None == -2
NonString == -3
PercentString == -4
Claude == 100
Gemini == 101
Grok == 102

DefaultConfidence == 80
MinimumConfidence == 70

\* Python truth value of a winner: "" and None are false
Truthy(x) == x # EmptyString /\ x # None

IsNumeric(x) == x \notin {None, NonString, PercentString, NonNumeric}

Dict(items) == [t |-> "dict", items |-> items]
List(items) == [t |-> "list", items |-> items]

\* ranking[solver_id] = rank
SetItem(d, key, val) ==
    IF key \in Keys(d.items)
    THEN Dict([i \in 1..Len(d.items) |->
                  IF d.items[i].k = key THEN [k |-> key, v |-> val] ELSE d.items[i]])
    ELSE Dict(Append(d.items, [k |-> key, v |-> val]))

Fields(w, c, r, e, k) ==
    [winner |-> w, confidence |-> c, reasoning |-> r,
     evaluation_criteria |-> e, ranking |-> k]

\* lines 70-74
InitialFields == Fields(EmptyString, 0, "", "{}", Dict(<<>>))

\* lines 83-88: data.get(key, default) for each field of a JSON object
JsonFields(data) ==
    Fields(Get(data, "winner", EmptyString),
           Get(data, "confidence", 0),
           Get(data, "reasoning", ""),
           Get(data, "evaluation_criteria", "{}"),
           Get(data, "ranking", Dict(<<>>)))

\* lines 97-152: one labelled line of a text-format response
TextLine(f, line) ==
    CASE line.label = "Winner:" -> [f EXCEPT !.winner = line.v]
      [] line.label = "Confidence:" ->
            [f EXCEPT !.confidence = IF IsNumeric(line.v) THEN line.v ELSE 0]
      [] line.label = "Reasoning:" -> [f EXCEPT !.reasoning = "given"]
      [] line.label = "1." ->
            [f EXCEPT !.ranking = SetItem(f.ranking, line.v, 1),
                      !.winner = IF Truthy(f.winner) THEN f.winner ELSE line.v]
      [] OTHER -> f

RECURSIVE TextFields(_, _)
TextFields(f, lines) ==
    IF lines = <<>> THEN f
    ELSE TextFields(TextLine(f, Head(lines)), Tail(lines))

\* the mock review text is a JSON object with "confidence": 0.8 and no
\* "winner", "reasoning", "evaluation_criteria" or "ranking"
MockReviewData == [key \in {"confidence"} |-> 80]

\* lines 79-154: the fields recovered from the response
ParsedFields(resp) ==
    CASE resp.form = "json" -> JsonFields(resp.data)
      [] resp.form = "mock_review" -> JsonFields(MockReviewData)
      [] resp.form = "text" -> TextFields(InitialFields, resp.lines)
      [] OTHER              -> InitialFields

\* lines 159-163: the first solver the ranking puts at rank 1
FirstRanked(ranking) ==
    LET firsts == {i \in 1..Len(ranking.items) : ranking.items[i].v = 1}
    IN IF firsts = {} THEN EmptyString
       ELSE ranking.items[CHOOSE i \in firsts : \A j \in firsts : i <= j].k

\* lines 166-176: the hardcoded default judgment
DefaultJudgmentFields ==
    Fields(Claude, DefaultConfidence, "default", "default",
           Dict(<<[k |-> Claude, v |-> 1], [k |-> Gemini, v |-> 2],
                  [k |-> Grok, v |-> 3]>>))

\* lines 156-176
EnsureWinner(f) ==
    IF Truthy(f.winner) THEN f
    ELSE LET w == IF f.ranking.items # <<>> THEN FirstRanked(f.ranking)
                  ELSE EmptyString
         IN IF Truthy(w) THEN [f EXCEPT !.winner = w]
            ELSE DefaultJudgmentFields

\* line 160: ranking.items() on a non-empty list raises AttributeError
RankingRaises(f) ==
    ~Truthy(f.winner) /\ f.ranking.t = "list" /\ f.ranking.items # <<>>

\* line 179: confidence <= 0 on a str or None raises TypeError
ConfidenceRaises(f) == ~IsNumeric(f.confidence)

\* lines 178-192
Judgment(f) ==
    [status |-> "ok",
     winner |-> f.winner,
     confidence |-> IF f.confidence <= 0 THEN MinimumConfidence ELSE f.confidence,
     reasoning |-> IF f.reasoning = "" THEN "generated" ELSE f.reasoning,
     evaluation_criteria |-> f.evaluation_criteria,
     ranking |-> f.ranking]

Raised(e) == [status |-> e]

_parse_judgment(resp) ==
    LET f == ParsedFields(resp)
    IN IF RankingRaises(f) THEN Raised("AttributeError")
       ELSE IF ConfidenceRaises(EnsureWinner(f)) THEN Raised("TypeError")
       ELSE Judgment(EnsureWinner(f))

\* lines 61-63: one call to the judge, then the parse
make_judgment(mock_mode, provider) ==
    _parse_judgment(call_llm(mock_mode, "judgment", provider))

----------------------------------------------------------------------------
(* Peer review: src/peer_review.py and src/models.py *)

\* models.py lines 20-24
Assessment == {"correct", "promising_but_flawed", "fundamentally_flawed", "incomplete"}

ReviewDefaultConfidence == 70

\* lines 79-83 and 107-111: Assessment(value), PROMISING_BUT_FLAWED on ValueError
ParseAssessment_Raw(value) == value

ParseAssessment(value) ==
    IF value \in Assessment THEN value ELSE "promising_but_flawed"

PeerReview(reviewer_id, solution_id, assessment, confidence) ==
    [reviewer_id |-> reviewer_id, solution_id |-> solution_id,
     overall_assessment |-> assessment, confidence |-> confidence]

\* line 107: str.lower() of the assessment strings the texts hold
Lower(value) ==
    CASE value = "Correct" -> "correct"
      [] value = "Unclear" -> "unclear"
      [] OTHER             -> value

\* lines 64-65: "errors" holds a value that "for err in error_data" cannot
\* iterate (a number, null); the TypeError leaves the JSON branch at once
\* and is caught at line 130
ErrorsRaise(data) == Get(data, "errors", "list") = "not_iterable"

\* lines 58-86: the JSON branch; the assessment is read after the errors
ParseReviewObject(data) ==
    [assessment |-> IF ErrorsRaise(data) THEN "promising_but_flawed"
                    ELSE ParseAssessment(Get(data, "overall_assessment",
                                             "promising_but_flawed")),
     confidence |-> Get(data, "confidence", ReviewDefaultConfidence)]

\* a line of a labelled-text review: its label and what follows it, read
\* as an assessment or as a confidence
ReviewLine(label, assessment, confidence) ==
    [label |-> label, assessment |-> assessment, confidence |-> confidence]

\* lines 93-128: the labels are matched with startswith, in their exact
\* letter case; a later line overrides an earlier one
RECURSIVE ParseReviewLines(_, _)
ParseReviewLines(lines, acc) ==
    IF lines = <<>> THEN acc
    ELSE LET line == Head(lines)
             next ==
                 CASE line.label = "Overall Assessment:" ->
                        [acc EXCEPT !.assessment =
                            ParseAssessment(Lower(line.assessment))]
                   [] line.label = "Confidence in Review:" ->
                        [acc EXCEPT !.confidence =
                            IF line.confidence = NonNumeric
                            THEN ReviewDefaultConfidence
                            ELSE line.confidence]
                   [] OTHER -> acc
         IN ParseReviewLines(Tail(lines), next)

ReviewDefaults ==
    [assessment |-> "promising_but_flawed", confidence |-> ReviewDefaultConfidence]

\* lines 40-142
_parse_review(resp, reviewer_id, solution_id) ==
    LET parsed ==
            CASE resp.form = "mock_review" ->
                    [assessment |-> "promising_but_flawed", confidence |-> 80]
              [] resp.form = "json" -> ParseReviewObject(resp.data)
              [] resp.form = "text" -> ParseReviewLines(resp.lines, ReviewDefaults)
              [] OTHER -> ReviewDefaults
    IN PeerReview(reviewer_id, solution_id, parsed.assessment, parsed.confidence)

\* lines 15-34: one call to the reviewer, then the parse; the reviewed id
\* is the solution's own solver_id field
generate_review(mock_mode, provider, reviewer_id, solution) ==
    _parse_review(call_llm(mock_mode, "review", provider), reviewer_id,
                  solution.solver_id)

\* mutant: the reviewer != solution_id test is dropped
ShouldReview_Everyone(reviewer, solution_id) == TRUE

\* line 150
ShouldReview(reviewer, solution_id) == reviewer # solution_id

\* lines 148-150: the (reviewer, solution) visits of the two nested loops,
\* in loop order
RECURSIVE ReviewPairsFrom(_, _, _)
ReviewPairsFrom(solver_list, sols, n) ==
    IF n > Len(solver_list) * Len(sols) THEN <<>>
    ELSE LET reviewer == solver_list[((n - 1) \div Len(sols)) + 1]
             entry    == sols[((n - 1) % Len(sols)) + 1]
             rest     == ReviewPairsFrom(solver_list, sols, n + 1)
         IN IF ShouldReview(reviewer, entry.k)
            THEN <<[reviewer |-> reviewer, solution_id |-> entry.k,
                    solution |-> entry.v]>> \o rest
            ELSE rest

ReviewPairs(solver_list, sols) == ReviewPairsFrom(solver_list, sols, 1)

\* line 146
EmptyReviews(solver_list) ==
    [i \in 1..Len(solver_list) |-> [k |-> solver_list[i], v |-> <<>>]]

\* line 153: reviews[solution_id].append(review)
AppendReview(revs, solution_id, review) ==
    [i \in 1..Len(revs) |->
        IF revs[i].k = solution_id
        THEN [k |-> revs[i].k, v |-> Append(revs[i].v, review)]
        ELSE revs[i]]

----------------------------------------------------------------------------
(* Role preferences a participant can hold (typed: numeric confidences) *)

Pref(rs, c) == [preferred_roles |-> rs, confidence_by_role |-> c]

Conf(s, j) == [r \in {"Solver", "Judge"} |-> IF r = "Solver" THEN s ELSE j]

\* defaults of _parse_role_preference
DefaultPreference == Pref({"Solver"}, Conf(80, 50))

Profiles ==
    { DefaultPreference,
      Pref({"Judge"}, [r \in {"Judge"} |-> 90]),
      Pref({"Solver", "Judge"}, Conf(85, 80)),
      Pref({"Judge"}, Conf(60, 70)),
      Pref({"Solver"}, Conf(60, 90)) }

\* insertion orders of the preference dict: ids ascending or descending
Orders(n) == { [i \in 1..n |-> i], [i \in 1..n |-> n + 1 - i] }

PreferenceMaps ==
    UNION { { [i \in 1..n |-> [k |-> ord[i], v |-> ps[i]]] :
                ord \in Orders(n), ps \in [1..n -> Profiles] } : n \in 0..MaxPool }

NoJudgment == [status |-> "none"]
NoResult == [status |-> "none"]
NoCheck == [status |-> "none"]

----------------------------------------------------------------------------
(* SpecRoles: assign_roles_deterministic applied to a preference map *)

InitRoles ==
    /\ pc = "assign_roles"
    /\ preferences \in PreferenceMaps
    /\ use_mock = FALSE /\ roles = NoRoles /\ solutions = <<>> /\ reviews = <<>>
    /\ response = [form |-> "none"] /\ judgment = NoJudgment /\ calls = <<>>
    /\ raised = "none" /\ result = NoResult
    /\ refined_solutions = <<>> /\ checked = NoCheck /\ problem = "none"

AssignRolesCall ==
    /\ pc = "assign_roles"
    /\ LET r == assign_roles_deterministic(preferences)
       IN /\ roles' = r
          /\ raised' = IF r.status = "ok" THEN "none" ELSE r.status
    /\ pc' = "returned"
    /\ UNCHANGED <<problem, use_mock, preferences, solutions, reviews, response,
                   judgment, calls, result,
                   refined_solutions, checked>>

NextRoles == AssignRolesCall

SpecRoles == InitRoles /\ [][NextRoles]_vars

SeqToSet(s) == {s[i] : i \in 1..Len(s)}

Distinct(s) == \A i, j \in 1..Len(s) : i # j => s[i] # s[j]

\* C1: for every preference map with at least 4 participants, role
\* assignment returns exactly one judge and exactly three pairwise-distinct
\* solvers, all drawn from the participant pool, the judge not among them.
C1_RolePartition ==
    (pc = "returned" /\ Len(preferences) >= 4) =>
        /\ roles.status = "ok"
        /\ roles.judge \in Keys(preferences)
        /\ Len(roles.solvers) = 3
        /\ Distinct(roles.solvers)
        /\ SeqToSet(roles.solvers) \subseteq Keys(preferences)
        /\ roles.judge \notin SeqToSet(roles.solvers)

\* a pool of five whose judge came from the fallback branch, assigned
C1_Witness ==
    /\ pc = "returned"
    /\ Len(preferences) = 5
    /\ \A i \in 1..Len(preferences) : ~IsJudgeCandidate(preferences[i].v)
    /\ roles.status = "ok"
    /\ Len(roles.solvers) = 3

\* C10: role assignment called with fewer than four participants fails
\* with a configuration error and assigns no judge and no solvers.
C10_TooFewParticipants ==
    (pc = "returned" /\ Len(preferences) < 4) =>
        /\ raised = "ValueError"
        /\ roles.status = "ValueError"
        /\ roles.judge = 0
        /\ roles.solvers = <<>>

C10_Witness ==
    /\ pc = "returned"
    /\ Len(preferences) = 3
    /\ raised = "ValueError"

\* the preference of a participant of the map, and its two confidences
PrefOf(n) == Value(preferences, n)
JudgeConfidence(n) == Get(PrefOf(n).confidence_by_role, "Judge", 0)
SolverConfidence(n) == Get(PrefOf(n).confidence_by_role, "Solver", 0)

\* lists "Judge" with a Judge confidence strictly above 0.7
Qualifies(n) ==
    "Judge" \in PrefOf(n).preferred_roles /\ JudgeConfidence(n) > 70

Qualifiers == {n \in Keys(preferences) : Qualifies(n)}

Assigned == pc = "returned" /\ roles.status = "ok"

\* C11: when some participant lists "Judge" with Judge confidence strictly
\* above 0.7, the judge is one of those and has the maximum Judge
\* confidence among them; nobody else is chosen as judge in that case.
C11_JudgeIsBestCandidate ==
    (Assigned /\ Qualifiers # {}) =>
        /\ roles.judge \in Qualifiers
        /\ \A n \in Qualifiers : JudgeConfidence(n) <= JudgeConfidence(roles.judge)

\* two qualifying candidates of different confidence and a participant at
\* the threshold, assigned
C11_Witness ==
    /\ Assigned
    /\ \E m, n \in Qualifiers : JudgeConfidence(m) < JudgeConfidence(n)
    /\ \E n \in Keys(preferences) \ Qualifiers :
          "Judge" \in PrefOf(n).preferred_roles /\ JudgeConfidence(n) = 70

\* participants that are neither judge nor solver
LeftOut == Keys(preferences) \ (SeqToSet(roles.solvers) \cup {roles.judge})

\* C12: ties are broken by participant id ascending, whatever the insertion
\* order of the map: among judge candidates of equal maximum Judge
\* confidence the smallest id is judge, and among solver candidates of equal
\* Solver confidence the smaller id ranks first.
C12_TiesByIdAscending ==
    Assigned =>
        /\ Qualifiers # {} =>
              \A n \in Qualifiers :
                  JudgeConfidence(n) = JudgeConfidence(roles.judge) => roles.judge <= n
        /\ Len(preferences) >= 5 =>
              \A i, j \in 1..Len(roles.solvers) :
                  (i < j /\ SolverConfidence(roles.solvers[i])
                              = SolverConfidence(roles.solvers[j]))
                      => roles.solvers[i] < roles.solvers[j]
        /\ \A s \in SeqToSet(roles.solvers) : \A e \in LeftOut :
              SolverConfidence(s) = SolverConfidence(e) => s < e

\* C13: when no participant qualifies as judge candidate, the participant
\* with the lowest Solver confidence is the judge; the role is filled.
C13_FallbackJudgeIsWeakestSolver ==
    (pc = "returned" /\ Len(preferences) >= 4 /\ Qualifiers = {}) =>
        /\ roles.status = "ok"
        /\ roles.judge \in Keys(preferences)
        /\ \A n \in Keys(preferences) :
              SolverConfidence(roles.judge) <= SolverConfidence(n)

\* nobody qualifies and the Solver confidences differ
C13_Witness ==
    /\ Assigned
    /\ Qualifiers = {}
    /\ \E n \in Keys(preferences) :
          SolverConfidence(roles.judge) < SolverConfidence(n)

\* C14: with a pool of five or more the three solvers are the remaining
\* participants of highest Solver confidence, whichever way the judge was
\* chosen.
C14_TopThreeSolvers ==
    (Assigned /\ Len(preferences) >= 5) =>
        \A s \in SeqToSet(roles.solvers) : \A e \in LeftOut :
            SolverConfidence(s) >= SolverConfidence(e)

\* the same preference map filled in the opposite order
Reversed(seq) == [i \in 1..Len(seq) |-> seq[Len(seq) + 1 - i]]

\* C15: the output of a stage does not depend on the order its participants
\* are processed in: the role partition computed from the preferences
\* collected in the opposite order has the same judge and the same solvers.
C15_PartitionIndependentOfOrder ==
    pc = "returned" =>
        LET other == assign_roles_deterministic(Reversed(preferences))
        IN /\ other.status = roles.status
           /\ roles.status = "ok" =>
                 /\ other.judge = roles.judge
                 /\ SeqToSet(other.solvers) = SeqToSet(roles.solvers)

----------------------------------------------------------------------------
(* Judge responses *)

Absent == -9
AbsentValue == [t |-> "absent", items |-> <<>>]

\* a JSON object holding the keys whose value is given
Object(w, c, r, e, k) ==
    [key \in ((IF w = Absent THEN {} ELSE {"winner"})
              \cup (IF c = Absent THEN {} ELSE {"confidence"})
              \cup (IF r = "absent" THEN {} ELSE {"reasoning"})
              \cup (IF e = "absent" THEN {} ELSE {"evaluation_criteria"})
              \cup (IF k = AbsentValue THEN {} ELSE {"ranking"})) |->
        CASE key = "winner" -> w
          [] key = "confidence" -> c
          [] key = "reasoning" -> r
          [] key = "evaluation_criteria" -> e
          [] OTHER -> k]

JsonWinners == {Absent, EmptyString, None, NonString, 1, 2, 3, 5}
JsonConfidences == {Absent, 85, 0, PercentString, None}
JsonRankings ==
    { AbsentValue,
      Dict(<<[k |-> 3, v |-> 1], [k |-> 2, v |-> 2]>>),
      Dict(<<[k |-> 5, v |-> 1]>>),
      List(<<[k |-> 2, v |-> 1]>>) }

JsonResponses ==
    { [form |-> "json", data |-> Object(w, c, r, e, k)] :
        w \in JsonWinners, c \in JsonConfidences, r \in {"absent", "given"},
        e \in {"absent", "given"}, k \in JsonRankings }

TextLines ==
    { [label |-> "Winner:", v |-> w] : w \in {EmptyString, 1, 2, 5} }
    \cup { [label |-> "Confidence:", v |-> c] : c \in {85, NonNumeric} }
    \cup { [label |-> "1.", v |-> w] : w \in {3, 5} }
    \cup { [label |-> "Reasoning:", v |-> 1], [label |-> "other", v |-> 0] }

TextResponses ==
    UNION { { [form |-> "text", lines |-> ls] : ls \in [1..n -> TextLines] } :
            n \in 1..MaxLines }

\* what the provider does for the judge: raise, or return a text
JudgeResponses ==
    { [form |-> "raise"], [form |-> "empty"], [form |-> "badjson"],
      [form |-> "nonobject"] } \cup JsonResponses \cup TextResponses

Partition(j, n) ==
    [status |-> "ok", judge |-> j,
     solvers |-> SelectSeqNot([i \in 1..n |-> i], j)]

----------------------------------------------------------------------------
(* SpecJudge: make_judgment applied to a judge response *)

InitJudge ==
    /\ pc = "make_judgment"
    /\ use_mock \in BOOLEAN
    /\ roles \in {Partition(1, 4), Partition(4, 4)}
    /\ response \in JudgeResponses
    /\ preferences = <<>> /\ solutions = <<>> /\ reviews = <<>>
    /\ judgment = NoJudgment /\ calls = <<>>
    /\ raised = "none" /\ result = NoResult
    /\ refined_solutions = <<>> /\ checked = NoCheck /\ problem = "none"

MakeJudgmentCall ==
    /\ pc = "make_judgment"
    /\ LET j == make_judgment(use_mock, response)
       IN /\ judgment' = j
          /\ raised' = IF j.status = "ok" THEN "none" ELSE j.status
    /\ calls' = Append(calls, [stage |-> "judgment", who |-> roles.judge,
                               failed |-> ProviderFailed(use_mock, response)])
    /\ pc' = "returned"
    /\ UNCHANGED <<problem, use_mock, preferences, roles, solutions, reviews,
                   response, result,
                   refined_solutions, checked>>

NextJudge == MakeJudgmentCall

SpecJudge == InitJudge /\ [][NextJudge]_vars

SolverIds == SeqToSet(roles.solvers)

\* the text the parser saw
JudgeText == call_llm(use_mock, "judgment", response)

\* the winner the judge's text itself names, before any default
ResponseWinner == ParsedFields(JudgeText).winner

IsParticipantName(w) == w \notin {EmptyString, None, NonString}

\* the text is a JSON object and this is what it holds
IsObject(resp) == resp.form \in {"json", "mock_review"}
ObjectData(resp) == IF resp.form = "json" THEN resp.data ELSE MockReviewData

\* empty text, broken JSON, a JSON value that is not an object, or an
\* object without a non-empty string "winner"
NoWinnerRecoverable(resp) ==
    \/ resp.form \in {"empty", "badjson", "nonobject"}
    \/ /\ IsObject(resp)
       /\ ~IsParticipantName(Get(ObjectData(resp), "winner", EmptyString))

\* a soft-failure Judgment: no winner, a warning and an error message
SoftFailure(j) ==
    /\ j.status = "ok"
    /\ j.winner = None
    /\ "warning" \in DOMAIN j /\ j.warning = TRUE
    /\ "error" \in DOMAIN j /\ j.error # ""

\* C4: the winner of the Judgment returned by the judge operation is none
\* or a member of the solver-id set; never the judge, never an outsider.
C4_WinnerInSolverSet ==
    (pc = "returned" /\ judgment.status = "ok") =>
        (judgment.winner = None \/ judgment.winner \in SolverIds)


\* C5: when the judge's response names a winner outside the solver-id set,
\* the judge operation returns a soft-failure Judgment (winner none, warning
\* true, an error message) and does not raise.
C5_InvalidWinnerSoftFailure ==
    (pc = "returned" /\ IsParticipantName(ResponseWinner)
                     /\ ResponseWinner \notin SolverIds) =>
        (raised = "none" /\ SoftFailure(judgment))

\* C6: when no winner can be recovered from the judge's response, the judge
\* operation returns a soft-failure Judgment with winner none and an error
\* message, never a Judgment naming a default winner.
C6_NoWinnerSoftFailure ==
    (pc = "returned" /\ NoWinnerRecoverable(JudgeText)) =>
        (raised = "none" /\ SoftFailure(judgment))

\* the judge's text is a JSON object naming a solver as winner
ObjectNamesSolver ==
    /\ pc = "returned"
    /\ IsObject(JudgeText)
    /\ Get(ObjectData(JudgeText), "winner", EmptyString) \in SolverIds

GivenConfidence == Get(ObjectData(JudgeText), "confidence", Absent)

\* C17: a JSON object with a valid winner and the confidence "85%" gives a
\* Judgment with that winner and confidence 0.85; a numeric confidence is
\* kept as given.
C17_PercentConfidence ==
    /\ (ObjectNamesSolver /\ GivenConfidence = PercentString) =>
          /\ raised = "none"
          /\ judgment.status = "ok"
          /\ judgment.winner = ObjectData(JudgeText)["winner"]
          /\ judgment.confidence = 85
    /\ (ObjectNamesSolver /\ IsNumeric(GivenConfidence) /\ GivenConfidence # Absent) =>
          /\ judgment.status = "ok"
          /\ judgment.confidence = GivenConfidence

\* C18: when the response names a valid winner but omits reasoning,
\* evaluation criteria or ranking, those fields of the Judgment are absent
\* or empty; nothing is generated for them.
C18_OmittedFieldsStayEmpty ==
    (pc = "returned" /\ judgment.status = "ok"
        /\ ParsedFields(JudgeText).winner \in SolverIds) =>
        /\ ParsedFields(JudgeText).reasoning = "" => judgment.reasoning = ""
        /\ ParsedFields(JudgeText).evaluation_criteria = "{}"
              => judgment.evaluation_criteria = "{}"
        /\ ParsedFields(JudgeText).ranking = Dict(<<>>)
              => judgment.ranking = Dict(<<>>)

----------------------------------------------------------------------------
(* SpecReview: conduct_peer_review over solution dicts keyed by solver *)

\* what the provider does for one reviewer
ReviewResponses ==
    { [form |-> "raise"],
      [form |-> "json", data |-> [key \in {"overall_assessment"} |-> "correct"]] }

\* Solution.to_dict() of the solution generated for a solver
SolutionDict(solver) == [solver_id |-> solver]

SolverLists ==
    UNION { { Partition(j, n).solvers : j \in 1..n }
            \cup { [i \in 1..(n - 1) |-> Partition(j, n).solvers[n - i]] : j \in 1..n } :
            n \in 1..(MaxSolvers + 1) }

ReviewsDone == Len(calls)

InitReview ==
    /\ pc = "conduct_peer_review"
    /\ use_mock \in BOOLEAN
    /\ \E sl \in SolverLists :
          /\ roles = [status |-> "ok", judge |-> 0, solvers |-> sl]
          /\ solutions = [i \in 1..Len(sl) |-> [k |-> sl[i], v |-> SolutionDict(sl[i])]]
    /\ preferences = <<>> /\ reviews = <<>>
    /\ response = [form |-> "none"] /\ judgment = NoJudgment /\ calls = <<>>
    /\ raised = "none" /\ result = NoResult
    /\ refined_solutions = <<>> /\ checked = NoCheck /\ problem = "none"

\* line 146
ReviewBegin ==
    /\ pc = "conduct_peer_review"
    /\ reviews' = EmptyReviews(roles.solvers)
    /\ pc' = "reviewing"
    /\ UNCHANGED <<problem, use_mock, preferences, roles, solutions, response,
                   judgment, calls, raised, result, refined_solutions, checked>>

\* lines 148-153: the next visit of the loops that passes the test
ReviewStep ==
    /\ pc = "reviewing"
    /\ ReviewsDone < Len(ReviewPairs(roles.solvers, solutions))
    /\ \E provider \in ReviewResponses :
          LET pair == ReviewPairs(roles.solvers, solutions)[ReviewsDone + 1]
              review == generate_review(use_mock, provider, pair.reviewer,
                                        pair.solution)
          IN /\ reviews' = AppendReview(reviews, pair.solution_id, review)
             /\ calls' = Append(calls, [stage |-> "review", who |-> pair.reviewer,
                                        failed |-> ProviderFailed(use_mock, provider)])
             /\ response' = provider
    /\ UNCHANGED <<pc, problem, use_mock, preferences, roles, solutions, judgment,
                   raised, result,
                   refined_solutions, checked>>

\* line 155
ReviewReturn ==
    /\ pc = "reviewing"
    /\ ReviewsDone = Len(ReviewPairs(roles.solvers, solutions))
    /\ pc' = "returned"
    /\ UNCHANGED <<problem, use_mock, preferences, roles, solutions, reviews, response,
                   judgment, calls, raised, result, refined_solutions, checked>>

NextReview == ReviewBegin \/ ReviewStep \/ ReviewReturn

SpecReview == InitReview /\ [][NextReview]_vars

ReviewsOf(s) == Value(reviews, s)

Reviewers(s) == {ReviewsOf(s)[i].reviewer_id : i \in 1..Len(ReviewsOf(s))}

\* C3: peer review produces exactly one review for every ordered pair of
\* distinct solvers and no self-review; each review is stored under the
\* reviewed solver's key with matching reviewer_id and solution_id, so with
\* three solvers every solution ends with exactly two reviews.
C3_AllPairsReviewed ==
    /\ pc \in {"reviewing", "returned"} =>
          \A s \in Keys(reviews) : \A i \in 1..Len(ReviewsOf(s)) :
              /\ ReviewsOf(s)[i].solution_id = s
              /\ ReviewsOf(s)[i].reviewer_id # s
    /\ pc = "returned" =>
          /\ Keys(reviews) = SeqToSet(roles.solvers)
          /\ \A s \in Keys(reviews) :
                /\ Reviewers(s) = SeqToSet(roles.solvers) \ {s}
                /\ Len(ReviewsOf(s)) = Len(roles.solvers) - 1

C3_Witness ==
    /\ pc = "returned"
    /\ Len(roles.solvers) = 3
    /\ \A s \in Keys(reviews) : Len(ReviewsOf(s)) = 2

----------------------------------------------------------------------------
(* Role preference parsing: src/role_assignment.py lines 15-83 *)

\* the mock text lists ["Solver", "Judge"] with {"Solver": 0.85, "Judge": 0.65}
MockPreference == Pref({"Solver", "Judge"}, Conf(85, 65))

\* lines 41-83: each labelled line found replaces the default of its field;
\* a "Confidence by role" line whose braces are not JSON keeps the default
_parse_role_preference(resp) ==
    CASE resp.form = "mock_preference" -> MockPreference
      [] resp.form = "text" ->
            Pref(Get(resp.data, "Preferred roles", DefaultPreference.preferred_roles),
                 IF "Confidence by role" \in DOMAIN resp.data
                    /\ resp.data["Confidence by role"].json
                 THEN resp.data["Confidence by role"].dict
                 ELSE DefaultPreference.confidence_by_role)
      [] OTHER -> DefaultPreference

\* lines 15-35
get_role_preference(mock_mode, provider) ==
    _parse_role_preference(call_llm(mock_mode, "preference", provider))

\* main.py line 73 calls role_assigner.assign_roles, which the class in
\* src/role_assignment.py does not define; it is taken to be the
\* deterministic algorithm of section 4.2, which the class implements as
\* assign_roles_deterministic
assign_roles(prefs) == assign_roles_deterministic(prefs)

----------------------------------------------------------------------------
(* Solution generation: src/solution_generation.py and src/models.py *)

\* models.py lines 61-68: the fields of the Solution dataclass
SolutionFields ==
    {"solver_id", "solution_text", "final_answer", "confidence",
     "reasoning_steps", "assumptions"}

\* solution_generation.py lines 121-129: the keywords _parse_solution
\* passes to Solution(...)
SolutionKeywords == SolutionFields \cup {"timestamp"}

\* what can follow the label "Confidence:" in a solution text, in
\* hundredths: Absent is a text without the label, NonNumeric a run of
\* digits and dots that float() rejects ("1.2.3"), NegativeNumber "-0.3"
NegativeNumber == -30

\* solution_generation.py line 53
SolutionDefaultConfidence == 50

\* lines 109-115: the pattern Confidence:\s*([0-9.]+) matches digits and
\* dots only, so a sign stops the match; float() of the match is kept as
\* it is, and ValueError puts the default back
ParseSolutionConfidence(c) ==
    IF c = Absent THEN SolutionDefaultConfidence
    ELSE IF c = NonNumeric THEN SolutionDefaultConfidence
    ELSE IF c < 0 THEN SolutionDefaultConfidence
    ELSE c

\* the lines of the "Reasoning Steps:" section: "numbered" is "1. text",
\* "bare_number" is "1." alone, "digit_text" is a line that starts with a
\* digit and has no "1." prefix, "plain" any other line
LineKinds == {"numbered", "bare_number", "digit_text", "plain"}

\* lines 68-75: a line that starts with a digit loses its "1." prefix and
\* is kept when something is left
RECURSIVE ParseSteps(_)
ParseSteps(lines) ==
    IF lines = <<>> THEN <<>>
    ELSE LET line == Head(lines)
             rest == ParseSteps(Tail(lines))
         IN CASE line = "numbered"   -> <<"step">> \o rest
              [] line = "digit_text" -> <<"line">> \o rest
              [] OTHER               -> rest

\* a solution text: whether it holds the header "Reasoning Steps:", the
\* lines under it, and what follows "Confidence:"
SolutionText(header, lines, confidence) ==
    [form |-> "text", header |-> header, lines |-> lines,
     confidence |-> confidence]

\* llm_client.py lines 270-281: the generic mock solution
MockSolution ==
    SolutionText(TRUE, <<"numbered", "numbered", "numbered", "numbered">>, 90)

\* the text _parse_solution reads
SolutionTextOf(resp) ==
    CASE resp.form = "mock_solution" -> MockSolution
      [] resp.form = "text"          -> resp
      [] OTHER                       -> SolutionText(FALSE, <<>>, Absent)

\* line 56: response.strip()
response_clean(resp) == IF resp.form = "empty" THEN "" ELSE "response_clean"

\* lines 59-75
ParsedSteps(resp) ==
    LET text == SolutionTextOf(resp)
    IN IF text.header THEN ParseSteps(text.lines) ELSE <<>>

\* lines 118-119: if not reasoning_steps: reasoning_steps = [response_clean]
StepsOrWholeText(resp) ==
    IF ParsedSteps(resp) = <<>> THEN <<response_clean(resp)>>
    ELSE ParsedSteps(resp)

\* lines 121-127: the fields the parser computed (final_answer and
\* assumptions, which no property below reads, are left out)
ParsedSolution(resp, solver_id) ==
    [status |-> "ok", solver_id |-> solver_id,
     solution_text |-> response_clean(resp),
     confidence |-> ParseSolutionConfidence(SolutionTextOf(resp).confidence),
     reasoning_steps |-> StepsOrWholeText(resp)]

\* lines 48-129: the dataclass constructor raises TypeError on a keyword
\* that is not one of its fields
_parse_solution(resp, solver_id) ==
    IF SolutionKeywords \subseteq SolutionFields
    THEN ParsedSolution(resp, solver_id)
    ELSE Raised("TypeError")

\* lines 16-42
generate_solution(mock_mode, provider, solver_id) ==
    _parse_solution(call_llm(mock_mode, "solution", provider), solver_id)

----------------------------------------------------------------------------
(* SpecSolution: generate_solution applied to one provider response *)

MaxStepLines == 2

RECURSIVE LinesUpTo(_)
LinesUpTo(n) ==
    IF n = 0 THEN {<<>>}
    ELSE LinesUpTo(n - 1) \cup
         {Append(l, k) : l \in {m \in LinesUpTo(n - 1) : Len(m) = n - 1},
                         k \in LineKinds}

SolutionConfidences == {Absent, NonNumeric, NegativeNumber, 0, 90, 100, 150, 8500}

SolutionTexts ==
    { SolutionText(h, l, c) : h \in BOOLEAN, l \in LinesUpTo(MaxStepLines),
                              c \in SolutionConfidences }
    \cup { [form |-> "raise"], [form |-> "empty"] }

InitSolution ==
    /\ pc = "generate_solution"
    /\ use_mock \in BOOLEAN
    /\ response \in SolutionTexts
    /\ roles = Partition(1, 4)
    /\ preferences = <<>> /\ solutions = <<>> /\ reviews = <<>>
    /\ judgment = NoJudgment /\ calls = <<>>
    /\ raised = "none" /\ result = NoResult
    /\ refined_solutions = <<>> /\ checked = NoCheck /\ problem = "none"

\* solution_generation.py lines 16-42, for the first solver
GenerateSolutionCall ==
    /\ pc = "generate_solution"
    /\ LET solver == roles.solvers[1]
           solution == generate_solution(use_mock, response, solver)
       IN /\ calls' = Append(calls, [stage |-> "solution", who |-> solver,
                                     failed |-> ProviderFailed(use_mock, response)])
          /\ solutions' = IF solution.status = "ok"
                          THEN <<[k |-> solver, v |-> solution]>>
                          ELSE solutions
          /\ raised' = IF solution.status = "ok" THEN "none" ELSE solution.status
    /\ pc' = "returned"
    /\ UNCHANGED <<problem, use_mock, preferences, roles, reviews, response,
                   judgment, result,
                   refined_solutions, checked>>

NextSolution == GenerateSolutionCall

SpecSolution == InitSolution /\ [][NextSolution]_vars

\* the text the parser saw
ParsedText == call_llm(use_mock, "solution", response)

\* what the text holds after "Confidence:"
GivenSolutionConfidence == SolutionTextOf(ParsedText).confidence

\* generate_solution returned a Solution
SolutionReturned ==
    /\ pc = "returned"
    /\ raised = "none"
    /\ Len(solutions) = 1

\* C19: every Solution that solution parsing returns has a non-empty
\* reasoning_steps list; when the text yields no numbered step the list
\* is exactly the whole trimmed response, the empty response included
C19_ReasoningStepsNonEmpty ==
    pc = "returned" =>
        /\ SolutionReturned
        /\ solutions[1].v.reasoning_steps # <<>>
        /\ ParsedSteps(ParsedText) = <<>> =>
              solutions[1].v.reasoning_steps = <<response_clean(ParsedText)>>

\* C20: a Solution's confidence lies in [0, 1]; it is the default 0.5
\* when the text holds no parseable confidence or one outside [0, 1]
C20_SolutionConfidenceInRange ==
    pc = "returned" =>
        /\ SolutionReturned
        /\ solutions[1].v.confidence \in 0..100
        /\ GivenSolutionConfidence \notin 0..100 =>
              solutions[1].v.confidence = SolutionDefaultConfidence

----------------------------------------------------------------------------
(* SpecReviewParse: generate_review applied to one provider response *)

MaxReviewLines == 2

\* what "overall_assessment" holds in a JSON review: a name of the
\* enumeration, another string, the name in another letter case, null
JsonAssessments ==
    Assessment \cup {"unclear", "Correct", "null"}

\* a JSON object holding the keys whose value is given
ReviewObject(a, e, c) ==
    [key \in ((IF a = "absent" THEN {} ELSE {"overall_assessment"})
              \cup (IF e = "absent" THEN {} ELSE {"errors"})
              \cup (IF c = Absent THEN {} ELSE {"confidence"})) |->
        CASE key = "overall_assessment" -> a
          [] key = "errors"             -> e
          [] OTHER                      -> c]

JsonReviews ==
    { [form |-> "json", data |-> ReviewObject(a, e, c)] :
        a \in JsonAssessments \cup {"absent"},
        e \in {"absent", "list", "not_iterable"},
        c \in {Absent, 90} }

ReviewLines ==
    { ReviewLine("Overall Assessment:", a, 0) :
        a \in {"correct", "Correct", "incomplete", "Unclear", ""} }
    \cup { ReviewLine("overall assessment:", "correct", 0),
           ReviewLine("Strengths:", "", 0) }
    \cup { ReviewLine("Confidence in Review:", "", c) : c \in {90, NonNumeric} }

RECURSIVE ReviewTextsUpTo(_)
ReviewTextsUpTo(n) ==
    IF n = 0 THEN {<<>>}
    ELSE ReviewTextsUpTo(n - 1) \cup
         {Append(t, l) : t \in {u \in ReviewTextsUpTo(n - 1) : Len(u) = n - 1},
                         l \in ReviewLines}

ReviewTexts ==
    JsonReviews
    \cup { [form |-> "text", lines |-> t] : t \in ReviewTextsUpTo(MaxReviewLines) }
    \cup { [form |-> "raise"], [form |-> "broken_json"] }

InitReviewParse ==
    /\ pc = "generate_review"
    /\ use_mock \in BOOLEAN
    /\ response \in ReviewTexts
    /\ roles = Partition(1, 4)
    /\ solutions = [i \in 1..3 |-> [k |-> roles.solvers[i],
                                    v |-> SolutionDict(roles.solvers[i])]]
    /\ preferences = <<>> /\ reviews = <<>>
    /\ judgment = NoJudgment /\ calls = <<>>
    /\ raised = "none" /\ result = NoResult
    /\ refined_solutions = <<>> /\ checked = NoCheck /\ problem = "none"

\* peer_review.py lines 15-34: the first solver reviews the second solution
GenerateReviewCall ==
    /\ pc = "generate_review"
    /\ LET reviewer == roles.solvers[1]
           entry == solutions[2]
           review == generate_review(use_mock, response, reviewer, entry.v)
       IN /\ reviews' = <<[k |-> entry.k, v |-> <<review>>]>>
          /\ calls' = Append(calls, [stage |-> "review", who |-> reviewer,
                                     failed |-> ProviderFailed(use_mock, response)])
    /\ pc' = "returned"
    /\ UNCHANGED <<problem, use_mock, preferences, roles, solutions, response,
                   judgment, raised, result, refined_solutions, checked>>

NextReviewParse == GenerateReviewCall

SpecReviewParse == InitReviewParse /\ [][NextReviewParse]_vars

\* the text the parser saw
ReviewText == call_llm(use_mock, "review", response)

\* the PeerReview generate_review returned
Review == reviews[1].v[1]

\* the "Overall Assessment:" lines of a labelled text
AssessmentLines ==
    IF ReviewText.form # "text" THEN {}
    ELSE {l \in 1..Len(ReviewText.lines) :
             ReviewText.lines[l].label = "Overall Assessment:"}

\* the assessment the text states is missing or is not, in the letter case
\* the form reads it in, a name of the enumeration
NoKnownAssessment ==
    CASE ReviewText.form = "json" ->
            \/ "overall_assessment" \notin DOMAIN ReviewText.data
            \/ ReviewText.data["overall_assessment"] \notin
                  {"correct", "promising_but_flawed", "fundamentally_flawed",
                   "incomplete"}
      [] ReviewText.form = "text" ->
            \/ AssessmentLines = {}
            \/ LET last == CHOOSE l \in AssessmentLines :
                               \A m \in AssessmentLines : m <= l
               IN ReviewText.lines[last].assessment \in {"Unclear", ""}
      [] ReviewText.form = "mock_review" -> FALSE
      [] OTHER -> TRUE

\* C26: review parsing does not fail on the assessment: every PeerReview
\* has an overall assessment of the enumeration, and an assessment string
\* outside it, or none, gives promising_but_flawed, in the JSON form and in
\* the labelled-text form.
C26_AssessmentAlwaysKnown ==
    pc = "returned" =>
        /\ raised = "none"
        /\ Len(reviews) = 1
        /\ Review.overall_assessment \in
              {"correct", "promising_but_flawed", "fundamentally_flawed", "incomplete"}
        /\ NoKnownAssessment => Review.overall_assessment = "promising_but_flawed"

\* a JSON review and a labelled text with an unknown assessment have both
\* been parsed to promising_but_flawed
C26_Witness ==
    /\ pc = "returned"
    /\ Review.overall_assessment = "promising_but_flawed"
    /\ \/ /\ ReviewText.form = "json"
          /\ Get(ReviewText.data, "overall_assessment", "absent") = "unclear"
       \/ /\ ReviewText.form = "text"
          /\ \E l \in AssessmentLines : ReviewText.lines[l].assessment = "Unclear"

----------------------------------------------------------------------------
(* Refinement: src/refinement.py and src/utils.py *)

\* A refinement text is a sequence of lines and a line a non-empty sequence
\* of tokens: labels, words, and numbers written as they stand in the text.
NumberTokens == {"0", "3", "7", "85", "0.8", "0.9"}

\* float() of a number token, in hundredths
NumberValue(t) ==
    CASE t = "0"   -> 0
      [] t = "3"   -> 300
      [] t = "7"   -> 700
      [] t = "85"  -> 8500
      [] t = "0.8" -> 80
      [] OTHER     -> 90

\* refinement.py lines 86-90: the labels each anchored pattern matches,
\* whatever the letter case
AnswerPatterns ==
    << {"Refined Answer:", "REFINED ANSWER:"}, {"Final Answer:"}, {"Answer:"} >>

\* utils.py lines 21-26: the tokens each unanchored pattern matches inside
FinalAnswerPatterns ==
    << {"Final Answer:"},
       {"Answer:", "Final Answer:", "Refined Answer:", "REFINED ANSWER:"},
       {"Refined Solution:"},
       {"Result:"} >>

Rest(line, i) == SubSeq(line, i + 1, Len(line))

\* what \s*(.+) and \s*([^\n\r]+) capture after the token at (l, i): the
\* rest of the line, or the next line when the line ends there (\s* runs
\* over the line break); the empty sequence when the pattern fails there
CaptureAfter(text, l, i) ==
    IF i < Len(text[l]) THEN Rest(text[l], i)
    ELSE IF l < Len(text) THEN text[l + 1]
    ELSE <<>>

\* the places of a text: line and position in the line
Places(text) ==
    UNION {{<<l, i>> : i \in 1..Len(text[l])} : l \in 1..Len(text)}

NoMatch == [found |-> FALSE, text |-> <<>>]

\* re.search of ^\s*<label>\s*([^\n\r]+) with re.MULTILINE: the first line
\* that opens with the label and after which something is captured
AnchoredSearch(text, labels) ==
    LET hits == {l \in 1..Len(text) :
                    text[l][1] \in labels /\ CaptureAfter(text, l, 1) # <<>>}
    IN IF hits = {} THEN NoMatch
       ELSE LET l == CHOOSE h \in hits : \A g \in hits : h <= g
            IN [found |-> TRUE, text |-> CaptureAfter(text, l, 1)]

\* re.search of <label>\s*(.+): the first place in the text, on any line
\* and at any position of the line, where the label stands and something
\* is captured after it
UnanchoredSearch(text, labels) ==
    LET hits == {h \in Places(text) :
                    /\ text[h[1]][h[2]] \in labels
                    /\ CaptureAfter(text, h[1], h[2]) # <<>>}
    IN IF hits = {} THEN NoMatch
       ELSE LET first == CHOOSE h \in hits : \A g \in hits :
                             h[1] < g[1] \/ (h[1] = g[1] /\ h[2] <= g[2])
            IN [found |-> TRUE, text |-> CaptureAfter(text, first[1], first[2])]

\* lines 95-96: the answer is cut at the first "confidence:" it holds
CutBeforeConfidence(tokens) ==
    LET at == {i \in 1..Len(tokens) : tokens[i] = "Confidence:"}
    IN IF at = {} THEN tokens
       ELSE SubSeq(tokens, 1, (CHOOSE i \in at : \A j \in at : i <= j) - 1)

\* lines 84-99: the first pattern of the three that matches gives the answer
RECURSIVE LabelledAnswer(_, _)
LabelledAnswer(text, k) ==
    IF k > Len(AnswerPatterns) THEN NoMatch
    ELSE LET match == AnchoredSearch(text, AnswerPatterns[k])
         IN IF match.found
            THEN [found |-> TRUE, text |-> CutBeforeConfidence(match.text)]
            ELSE LabelledAnswer(text, k + 1)

\* utils.py lines 20-33
RECURSIVE FinalAnswerFrom(_, _)
FinalAnswerFrom(text, k) ==
    IF k > Len(FinalAnswerPatterns) THEN <<>>
    ELSE LET match == UnanchoredSearch(text, FinalAnswerPatterns[k])
         IN IF match.found THEN match.text ELSE FinalAnswerFrom(text, k + 1)

extract_final_answer(text) == FinalAnswerFrom(text, 1)

\* the number tokens of the text in reading order
RECURSIVE Numbers(_)
Numbers(text) ==
    IF text = <<>> THEN <<>>
    ELSE SelectSeq(Head(text), LAMBDA t : t \in NumberTokens) \o Numbers(Tail(text))

\* lines 171-175: candidates[-1]
LastNumber(text) ==
    LET candidates == Numbers(text)
    IN IF candidates = <<>> THEN <<>> ELSE <<candidates[Len(candidates)]>>

\* lines 84-99 and 163-175: the labelled answer, else extract_final_answer,
\* else the last number, else the empty answer
ParseRefinedAnswer(text) ==
    LET labelled == LabelledAnswer(text, 1)
        fallback == IF ~labelled.found \/ labelled.text = <<>>
                    THEN extract_final_answer(text) ELSE <<>>
        answer   == IF fallback # <<>> THEN fallback ELSE labelled.text
    IN IF answer # <<>> THEN answer ELSE LastNumber(text)

\* line 79
RefinementDefaultConfidence == 80

\* lines 101-107: the first line that opens with "Confidence:" and has a
\* number right after the label
ParseRefinementConfidence(text) ==
    LET hits == {l \in 1..Len(text) :
                    /\ text[l][1] = "Confidence:"
                    /\ CaptureAfter(text, l, 1) # <<>>
                    /\ CaptureAfter(text, l, 1)[1] \in NumberTokens}
    IN IF hits = {} THEN RefinementDefaultConfidence
       ELSE LET l == CHOOSE h \in hits : \A g \in hits : h <= g
            IN NumberValue(CaptureAfter(text, l, 1)[1])

\* models.py lines 105-110; critique_id n stands for "critique_n" and 0
\* for "default"
CritiqueResponse(critique_id, accepted, resp, changes_made) ==
    [critique_id |-> critique_id, accepted |-> accepted, response |-> resp,
     changes_made |-> changes_made]

\* lines 178-183
DefaultCritiqueResponse ==
    CritiqueResponse(0, TRUE, <<"Incorporated peer feedback">>,
                     <<"Refined solution based on reviews">>)

\* lines 123-127: the text after the first "Changes Made:", up to the
\* first "Refined Solution:" after it
RECURSIVE CutAtRefinedSolution(_)
CutAtRefinedSolution(lines) ==
    IF lines = <<>> THEN <<>>
    ELSE LET line == Head(lines)
             at == {i \in 1..Len(line) : line[i] = "Refined Solution:"}
         IN IF at = {} THEN <<line>> \o CutAtRefinedSolution(Tail(lines))
            ELSE <<SubSeq(line, 1, (CHOOSE i \in at : \A j \in at : i <= j) - 1)>>

ChangesSection(text) ==
    LET hits == {h \in Places(text) : text[h[1]][h[2]] = "Changes Made:"}
    IN IF hits = {} THEN <<>>
       ELSE LET first == CHOOSE h \in hits : \A g \in hits :
                             h[1] < g[1] \/ (h[1] = g[1] /\ h[2] <= g[2])
            IN CutAtRefinedSolution(
                   <<Rest(text[first[1]], first[2])>>
                   \o SubSeq(text, first[1] + 1, Len(text)))

Without(line, label) == SelectSeq(line, LAMBDA t : t # label)

NoCurrent ==
    [critique |-> <<>>, response |-> <<>>, accepted |-> FALSE,
     changes |-> <<>>, made |-> <<>>]

\* lines 138-143 and 155-161: the entry under way is appended when its
\* critique is not empty
Flush(cur) ==
    IF cur.critique = <<>> THEN cur.made
    ELSE Append(cur.made,
                CritiqueResponse(Len(cur.made) + 1, cur.accepted,
                                 cur.response, cur.changes))

StartsWith(line, label) == line # <<>> /\ line[1] = label

\* lines 134-161
RECURSIVE ParseChanges(_, _)
ParseChanges(lines, cur) ==
    IF lines = <<>> THEN Flush(cur)
    ELSE LET line == Head(lines)
             next ==
                 CASE StartsWith(line, "- Critique:") ->
                        [NoCurrent EXCEPT !.critique = Without(line, "- Critique:"),
                                          !.made = Flush(cur)]
                   [] StartsWith(line, "Response:") ->
                        [cur EXCEPT !.response = Without(line, "Response:")]
                   [] StartsWith(line, "Accepted:") ->
                        [cur EXCEPT !.accepted =
                            \E i \in 1..Len(line) : line[i] = "true"]
                   [] StartsWith(line, "Changes:") ->
                        [cur EXCEPT !.changes = Without(line, "Changes:")]
                   [] OTHER -> cur
         IN ParseChanges(Tail(lines), next)

\* lines 177-183: if not changes_made: the default entry is appended
EnsureChanges_Skip(made) == made

EnsureChanges(made) ==
    IF made = <<>> THEN <<DefaultCritiqueResponse>> ELSE made

\* llm_client.py lines 163-170: the mock review text, which a refinement
\* prompt gets in mock mode since it holds the word "review"; its only
\* numbers are the 0 of "n=0" and the 0.8 of "confidence"
MockReviewLines == << <<"word", "0">>, <<"word", "0.8">> >>

\* line 82: text = (response or "").strip()
RefinementTextOf(resp) ==
    CASE resp.form = "text"        -> resp.lines
      [] resp.form = "mock_review" -> MockReviewLines
      [] OTHER                     -> <<>>

\* lines 69-197 (refined_solution, which no property below reads, is left
\* out)
_parse_refinement(resp, solver_id) ==
    LET text == RefinementTextOf(resp)
    IN [status |-> "ok",
        original_solution_id |-> solver_id,
        changes_made |-> EnsureChanges(ParseChanges(ChangesSection(text), NoCurrent)),
        refined_answer |-> ParseRefinedAnswer(text),
        confidence |-> ParseRefinementConfidence(text)]

\* lines 14-67
refine_solution(mock_mode, provider, solver_id) ==
    _parse_refinement(call_llm(mock_mode, "refinement", provider), solver_id)

----------------------------------------------------------------------------
(* SpecRefine: refine_solution applied to one provider response *)

MaxRefineLines == 3

\* the lines a refinement text is drawn from
RefinementLines ==
    { <<"Refined Answer:", "85">>,
      <<"REFINED ANSWER:", "85", "Confidence:", "0.9">>,
      <<"Refined Answer:">>,
      <<"Refined Answer:", "Confidence:", "0.9">>,
      <<"Final Answer:", "3">>,
      <<"Confidence:", "0.9">>,
      <<"Refined Solution:", "word", "7">>,
      <<"word", "7">>,
      <<"word">>,
      <<"Changes Made:">>,
      <<"- Critique:", "word">>,
      <<"- Critique:">>,
      <<"Accepted:", "true">> }

RECURSIVE TextsUpTo(_)
TextsUpTo(n) ==
    IF n = 0 THEN {<<>>}
    ELSE TextsUpTo(n - 1) \cup
         {Append(t, l) : t \in {u \in TextsUpTo(n - 1) : Len(u) = n - 1},
                         l \in RefinementLines}

RefinementResponses ==
    { [form |-> "text", lines |-> t] : t \in TextsUpTo(MaxRefineLines) }
    \cup { [form |-> "raise"] }

InitRefine ==
    /\ pc = "refine_solution"
    /\ use_mock \in BOOLEAN
    /\ response \in RefinementResponses
    /\ roles = Partition(1, 4)
    /\ preferences = <<>> /\ solutions = <<>> /\ reviews = <<>>
    /\ judgment = NoJudgment /\ calls = <<>>
    /\ raised = "none" /\ result = NoResult
    /\ refined_solutions = <<>> /\ checked = NoCheck /\ problem = "none"

\* refinement.py lines 14-67, for the first solver
RefineSolutionCall ==
    /\ pc = "refine_solution"
    /\ LET solver == roles.solvers[1]
       IN /\ calls' = Append(calls, [stage |-> "refinement", who |-> solver,
                                     failed |-> ProviderFailed(use_mock, response)])
          /\ refined_solutions' =
                <<[k |-> solver, v |-> refine_solution(use_mock, response, solver)]>>
    /\ pc' = "returned"
    /\ UNCHANGED <<problem, use_mock, preferences, roles, solutions, reviews,
                   response, judgment, raised, result, checked>>

NextRefine == RefineSolutionCall

SpecRefine == InitRefine /\ [][NextRefine]_vars

\* the text the parser saw
RefinementText == RefinementTextOf(call_llm(use_mock, "refinement", response))

\* the RefinedSolution refine_solution returned
Refined == refined_solutions[1].v

\* the text holds a "Changes Made:" label and, after it, a "- Critique:"
\* line with something after the label
HoldsCritiqueEntry ==
    \E l, m \in 1..Len(RefinementText) :
        /\ l < m
        /\ \E i \in 1..Len(RefinementText[l]) : RefinementText[l][i] = "Changes Made:"
        /\ StartsWith(RefinementText[m], "- Critique:")
        /\ Len(RefinementText[m]) > 1

StatesConfidence ==
    \E h \in Places(RefinementText) : RefinementText[h[1]][h[2]] = "Confidence:"

\* C21: every RefinedSolution that refinement parsing returns holds at least
\* one CritiqueResponse; when the text has no "Changes Made:" section or no
\* critique entry in it, exactly the one synthesized entry is present; the
\* confidence is 0.8 when the text states none.
C21_AtLeastOneCritiqueResponse ==
    pc = "returned" =>
        /\ Len(refined_solutions) = 1
        /\ Len(Refined.changes_made) >= 1
        /\ ~HoldsCritiqueEntry => Refined.changes_made = <<DefaultCritiqueResponse>>
        /\ ~StatesConfidence => Refined.confidence = RefinementDefaultConfidence

\* a text with a "Changes Made:" section whose only entry is empty, and
\* without confidence, has been parsed
C21_Witness ==
    /\ pc = "returned"
    /\ ~HoldsCritiqueEntry /\ ~StatesConfidence
    /\ \E l, m \in 1..Len(RefinementText) :
          /\ l < m
          /\ RefinementText[l] = <<"Changes Made:">>
          /\ RefinementText[m] = <<"- Critique:">>
    /\ Refined.changes_made = <<DefaultCritiqueResponse>>

\* the lines that open with "Refined Answer:" in some letter case
RefinedAnswerLines ==
    {l \in 1..Len(RefinementText) :
        RefinementText[l][1] \in {"Refined Answer:", "REFINED ANSWER:"}}

FirstRefinedAnswerLine == CHOOSE l \in RefinedAnswerLines : \A m \in RefinedAnswerLines : l <= m

\* what a labelled line states: the tokens after the label and before the
\* first "Confidence:" of the line
AnswerOnLine(line) ==
    LET stops == {i \in 2..(Len(line) + 1) :
                     i = Len(line) + 1 \/ line[i] = "Confidence:"}
        stop == CHOOSE i \in stops : \A j \in stops : i <= j
    IN SubSeq(line, 2, stop - 1)

\* C24: when a line of the refinement text opens with "Refined Answer:" in
\* any letter case, refined_answer is the rest of such a line, cut before a
\* "Confidence:" on the same line, whatever else the text holds.
C24_RefinedAnswerLabelWins ==
    (pc = "returned" /\ RefinedAnswerLines # {}) =>
        \E l \in RefinedAnswerLines :
            Refined.refined_answer = AnswerOnLine(RefinementText[l])

\* C24, amended: when the first line that opens with "Refined Answer:"
\* states a non-empty answer before any "Confidence:", refined_answer is
\* that answer, whatever else the text holds.
C24_StatedRefinedAnswerWins ==
    (/\ pc = "returned"
     /\ RefinedAnswerLines # {}
     /\ AnswerOnLine(RefinementText[FirstRefinedAnswerLine]) # <<>>) =>
        Refined.refined_answer = AnswerOnLine(RefinementText[FirstRefinedAnswerLine])

\* a text with "Final Answer: 3" above "REFINED ANSWER: 85 Confidence: 0.9"
\* has been parsed to the answer 85
C24_Witness ==
    /\ pc = "returned"
    /\ \E l, m \in 1..Len(RefinementText) :
          /\ l < m
          /\ RefinementText[l] = <<"Final Answer:", "3">>
          /\ RefinementText[m] = <<"REFINED ANSWER:", "85", "Confidence:", "0.9">>
    /\ Refined.refined_answer = <<"85">>

\* no "Answer:" label, hence no "Refined Answer:" or "Final Answer:" either
NoAnswerLabel ==
    \A h \in Places(RefinementText) :
        RefinementText[h[1]][h[2]] \notin
            {"Answer:", "Final Answer:", "Refined Answer:", "REFINED ANSWER:"}

NumberPlaces ==
    {h \in Places(RefinementText) : RefinementText[h[1]][h[2]] \in NumberTokens}

\* the last number of the text, the empty answer when it has none
FinalNumber ==
    IF NumberPlaces = {} THEN <<>>
    ELSE LET last == CHOOSE h \in NumberPlaces : \A g \in NumberPlaces :
                         g[1] < h[1] \/ (g[1] = h[1] /\ g[2] <= h[2])
         IN <<RefinementText[last[1]][last[2]]>>

\* C25: when the refinement text has no "Refined Answer:", "Final Answer:"
\* or "Answer:" label, refined_answer is the last number of the text, and
\* it is empty only when the text has no number.
C25_LastNumberFallback ==
    (pc = "returned" /\ NoAnswerLabel) => Refined.refined_answer = FinalNumber

----------------------------------------------------------------------------
(* The answer check: src/evaluation.py, and main.py lines 206-228 *)

\* An answer is None or a text, and a text a sequence of pieces: the digits
\* 0 and 5, the dot, the comma, the blank, a letter in either case, and the
\* word "inf", which float() reads as infinity.
NoneAnswer == [form |-> "none", text |-> <<>>]
Text(pieces) == [form |-> "text", text |-> pieces]

Digits == {"0", "5"}

\* evaluation.py line 10: .lower() (.strip() removes blanks that line 11
\* removes anyway)
LowerPiece(c) == IF c = "A" THEN "a" ELSE c

RECURSIVE LowerText(_)
LowerText(t) ==
    IF t = <<>> THEN <<>> ELSE <<LowerPiece(Head(t))>> \o LowerText(Tail(t))

\* line 11: .rstrip(".")
RECURSIVE RStripDots(_)
RStripDots(t) ==
    IF t # <<>> /\ t[Len(t)] = "." THEN RStripDots(SubSeq(t, 1, Len(t) - 1))
    ELSE t

\* lines 10-11
CleanText(t) ==
    RStripDots(SelectSeq(LowerText(t), LAMBDA c : c \notin {",", " "}))

\* float(s) accepts digits with at most one dot among them
IsDecimal(t) ==
    /\ \A i \in 1..Len(t) : t[i] \in Digits \cup {"."}
    /\ \E i \in 1..Len(t) : t[i] \in Digits
    /\ Cardinality({i \in 1..Len(t) : t[i] = "."}) <= 1

DigitValue(c) == IF c = "5" THEN 5 ELSE 0

\* the digits of a decimal read as one integer, the dot left aside
RECURSIVE Unscaled(_)
Unscaled(t) ==
    IF t = <<>> THEN 0
    ELSE IF t[Len(t)] = "." THEN Unscaled(SubSeq(t, 1, Len(t) - 1))
    ELSE 10 * Unscaled(SubSeq(t, 1, Len(t) - 1)) + DigitValue(t[Len(t)])

\* the number of digits after the dot
Decimals(t) ==
    IF \E i \in 1..Len(t) : t[i] = "."
    THEN Len(t) - (CHOOSE i \in 1..Len(t) : t[i] = ".")
    ELSE 0

\* a normalized answer: the float Unscaled / 10^Decimals, the float
\* infinity, or a string
Float(n, d) == [kind |-> "float", n |-> n, d |-> d, s |-> <<>>]
Infinity == [kind |-> "inf", n |-> 0, d |-> 0, s |-> <<>>]
Str(t) == [kind |-> "str", n |-> 0, d |-> 0, s |-> t]

\* lines 7-15
normalize_answer(ans) ==
    IF ans.form = "none" THEN Str(<<>>)
    ELSE LET t == CleanText(ans.text)
         IN CASE IsDecimal(t)    -> Float(Unscaled(t), Decimals(t))
              [] t = <<"inf">>   -> Infinity
              [] OTHER           -> Str(t)

IsFloat(x) == x.kind \in {"float", "inf"}

RECURSIVE Pow10(_)
Pow10(k) == IF k = 0 THEN 1 ELSE 10 * Pow10(k - 1)

Abs(x) == IF x < 0 THEN -x ELSE x

\* line 22: abs(p - t) < 0.01; inf - inf is nan and inf - x is inf, and
\* neither is below 0.01
WithinTolerance(p, t) ==
    p.kind = "float" /\ t.kind = "float"
    /\ 100 * Abs(p.n * Pow10(t.d) - t.n * Pow10(p.d)) < Pow10(p.d + t.d)

\* lines 18-23
is_correct(pred, truth) ==
    LET p == normalize_answer(pred)
        t == normalize_answer(truth)
    IN IF IsFloat(p) /\ IsFloat(t) THEN WithinTolerance(p, t) ELSE p = t

----------------------------------------------------------------------------
(* SpecCheck: is_correct applied to a predicted answer and a ground truth *)

MaxAnswerLen == 3

Pieces == {"0", "5", ".", ",", " ", "a", "A", "inf"}

RECURSIVE AnswersUpTo(_)
AnswersUpTo(n) ==
    IF n = 0 THEN {<<>>}
    ELSE AnswersUpTo(n - 1) \cup
         {Append(t, c) : t \in {u \in AnswersUpTo(n - 1) : Len(u) = n - 1},
                         c \in Pieces}

Predictions == {NoneAnswer} \cup {Text(t) : t \in AnswersUpTo(MaxAnswerLen)}

\* ground truths: None, "", "0", 0.0, 5, "0.005", "a", "inf"
Truths ==
    { NoneAnswer, Text(<<>>), Text(<<"0">>), Text(<<"0", ".", "0">>),
      Text(<<"5">>), Text(<<"0", ".", "0", "0", "5">>), Text(<<"a">>),
      Text(<<"inf">>) }

InitCheck ==
    /\ pc = "is_correct"
    /\ \E pred \in Predictions, truth \in Truths :
          checked = [status |-> "asked", pred |-> pred, truth |-> truth,
                     correct |-> FALSE]
    /\ use_mock = TRUE /\ response = [form |-> "none"] /\ roles = NoRoles
    /\ preferences = <<>> /\ solutions = <<>> /\ reviews = <<>>
    /\ judgment = NoJudgment /\ calls = <<>>
    /\ raised = "none" /\ result = NoResult
    /\ refined_solutions = <<>> /\ problem = "none"

\* evaluation.py lines 18-23
IsCorrectCall ==
    /\ pc = "is_correct"
    /\ checked' = [checked EXCEPT !.status = "done",
                                  !.correct = is_correct(checked.pred, checked.truth)]
    /\ pc' = "returned"
    /\ UNCHANGED <<problem, use_mock, preferences, roles, solutions, reviews,
                   response, judgment, calls, raised, result, refined_solutions>>

NextCheck == IsCorrectCall

SpecCheck == InitCheck /\ [][NextCheck]_vars

Predicted == normalize_answer(checked.pred)
Truth == normalize_answer(checked.truth)

\* the two numbers are the same number or differ by less than 0.01
DifferByLessThanTolerance ==
    \/ Predicted = Truth
    \/ /\ Predicted.kind = "float" /\ Truth.kind = "float"
       /\ LET gap == Predicted.n * Pow10(Truth.d) - Truth.n * Pow10(Predicted.d)
          IN /\ 100 * gap < Pow10(Predicted.d + Truth.d)
             /\ -100 * gap < Pow10(Predicted.d + Truth.d)

\* C30: the answer check holds the predicted answer and the ground truth
\* equal when both normalize to numbers that differ by less than 0.01,
\* unequal when they normalize to numbers that differ by 0.01 or more, and
\* otherwise equal exactly when the normalized strings are the same.
C30_ToleranceCheck ==
    pc = "returned" =>
        IF IsFloat(Predicted) /\ IsFloat(Truth)
        THEN checked.correct <=> DifferByLessThanTolerance
        ELSE checked.correct <=> (Predicted = Truth)

\* C30 on finite numbers and on strings
C30_FiniteToleranceCheck ==
    (pc = "returned" /\ Predicted.kind # "inf" /\ Truth.kind # "inf") =>
        IF IsFloat(Predicted) /\ IsFloat(Truth)
        THEN checked.correct <=> DifferByLessThanTolerance
        ELSE checked.correct <=> (Predicted = Truth)

----------------------------------------------------------------------------
(* Spec: DebateSystem.run_debate, src/main.py lines 56-138 *)

\* main.py line 24
gemini_instances == <<1, 2, 3, 4>>

ConfLine(ok, d) == [json |-> ok, dict |-> d]

TextPreference(d) == [form |-> "text", data |-> d]

\* what the provider does for one role-preference prompt
PreferenceResponses ==
    { [form |-> "raise"],
      [form |-> "empty"],
      TextPreference([key \in {"Preferred roles", "Confidence by role"} |->
          IF key = "Preferred roles" THEN {"Judge"}
          ELSE ConfLine(TRUE, Conf(60, 90))]),
      TextPreference([key \in {"Confidence by role"} |->
          ConfLine(TRUE, Conf(NonNumeric, NonNumeric))]),
      TextPreference([key \in {"Preferred roles", "Confidence by role"} |->
          IF key = "Preferred roles" THEN {"Solver", "Judge"}
          ELSE ConfLine(FALSE, Conf(0, 0))]) }

SolutionResponses ==
    { [form |-> "raise"], [form |-> "empty"],
      SolutionText(TRUE, <<"numbered">>, 90),
      SolutionText(FALSE, <<>>, 8500) }

\* the provider is only reached outside mock mode
Providers(mock_mode, responses) ==
    IF mock_mode THEN {[form |-> "unused"]} ELSE responses

Call(stage, who, mock_mode, provider) ==
    [stage |-> stage, who |-> who, failed |-> ProviderFailed(mock_mode, provider)]

Init ==
    /\ pc = "load_problem"
    /\ problem = "none"
    /\ use_mock \in BOOLEAN
    /\ preferences = <<>> /\ roles = NoRoles /\ solutions = <<>> /\ reviews = <<>>
    /\ response = [form |-> "none"] /\ judgment = NoJudgment /\ calls = <<>>
    /\ raised = "none" /\ result = NoResult
    /\ refined_solutions = <<>> /\ checked = NoCheck

\* lines 32-54 and 61: the dataset holds the problem, lacks the id
\* (KeyError, not caught), or is missing (the built-in problem is used)
load_problem ==
    /\ pc = "load_problem"
    /\ \E dataset \in {"found", "absent", "no_file"} :
          /\ problem' = CASE dataset = "found" -> "loaded"
                          [] dataset = "no_file" -> "substituted"
                          [] OTHER -> "none"
          /\ raised' = IF dataset = "absent" THEN "KeyError" ELSE "none"
          /\ pc' = IF dataset = "absent" THEN "raised" ELSE "preferences"
    /\ UNCHANGED <<use_mock, preferences, roles, solutions, reviews, response,
                   judgment, calls, result,
                   refined_solutions, checked>>

\* lines 65-71: one turn of the loop over gemini_instances
GetRolePreference ==
    /\ pc = "preferences"
    /\ Len(preferences) < Len(gemini_instances)
    /\ \E provider \in Providers(use_mock, PreferenceResponses) :
          LET instance_name == gemini_instances[Len(preferences) + 1]
          IN /\ preferences' = Append(preferences,
                    [k |-> instance_name,
                     v |-> get_role_preference(use_mock, provider)])
             /\ calls' = Append(calls, Call("preference", instance_name,
                                            use_mock, provider))
    /\ UNCHANGED <<pc, problem, use_mock, roles, solutions, reviews, response,
                   judgment, raised, result,
                   refined_solutions, checked>>

\* line 73
AssignRoles ==
    /\ pc = "preferences"
    /\ Len(preferences) = Len(gemini_instances)
    /\ LET r == assign_roles(preferences)
       IN /\ roles' = r
          /\ raised' = IF r.status = "ok" THEN "none" ELSE r.status
          /\ pc' = IF r.status = "ok" THEN "solutions" ELSE "raised"
    /\ UNCHANGED <<problem, use_mock, preferences, solutions, reviews, response,
                   judgment, calls, result,
                   refined_solutions, checked>>

\* solution_generation.py line 133: for solver in solvers
SolverInTurn_Judge(r, n) == r.judge

SolverInTurn(r, n) == r.solvers[n]

\* lines 78-80 and generate_all_solutions, lines 131-137: one turn of the
\* loop over the solvers; an exception of generate_solution ends the run
GenerateSolution ==
    /\ pc = "solutions"
    /\ Len(solutions) < Len(roles.solvers)
    /\ \E provider \in Providers(use_mock, SolutionResponses) :
          LET solver == SolverInTurn(roles, Len(solutions) + 1)
              solution == generate_solution(use_mock, provider, solver)
          IN /\ calls' = Append(calls, Call("solution", solver, use_mock, provider))
             /\ solutions' = IF solution.status = "ok"
                             THEN Append(solutions, [k |-> solver, v |-> solution])
                             ELSE solutions
             /\ raised' = IF solution.status = "ok" THEN "none" ELSE solution.status
             /\ pc' = IF solution.status = "ok" THEN "solutions" ELSE "raised"
    /\ UNCHANGED <<problem, use_mock, preferences, roles, reviews, response,
                   judgment, result,
                   refined_solutions, checked>>

Next == load_problem \/ GetRolePreference \/ AssignRoles \/ GenerateSolution

Spec == Init /\ [][Next]_vars

Stages == <<"preference", "solution", "review", "refinement", "judgment">>

StageIndex(stage) == CHOOSE i \in 1..Len(Stages) : Stages[i] = stage

StagesCalled == {calls[i].stage : i \in 1..Len(calls)}

\* run_debate has returned or raised, on a problem the source supplied
RunEnded == pc \in {"done", "raised"} /\ problem # "none"

\* ... and the roles were assigned, so that stage 1 was entered
RunEndedAfterRoles == RunEnded /\ roles.status = "ok"

\* a record for the participant of a call in the output of its stage
HasRecord(call) ==
    CASE call.stage = "preference" -> call.who \in Keys(preferences)
      [] call.stage = "solution"   -> call.who \in Keys(solutions)
      [] call.stage = "review"     -> call.who \in UNION {Reviewers(s) : s \in Keys(reviews)}
      [] OTHER -> result.status = "ok"

\* C2: in run_debate the stages occur in the order role assignment,
\* solution generation, peer review, refinement, judgment, and no call of a
\* stage is issued before every call of the previous stage has returned.
C2_StagesInOrder ==
    /\ \A i, j \in 1..Len(calls) :
          i < j => StageIndex(calls[i].stage) <= StageIndex(calls[j].stage)
    /\ RunEndedAfterRoles => StagesCalled = SeqToSet(Stages)

\* C7: the judgment stored in the DebateResult returned by run_debate is
\* the judgment the judge stage produced.
C7_ResultCarriesJudgment ==
    RunEndedAfterRoles =>
        /\ judgment.status = "ok"
        /\ result.status = "ok"
        /\ result.judgment = judgment

\* main.py line 134: the field of the result read from the clock
ClockFields == {"timestamp"}

\* C16: two runs of run_debate on the same problem with the same
\* participant responses return the same DebateResult: a run returns a
\* record, and no field of the record comes from anything but the problem
\* and the responses.
C16_RunsReproducible ==
    RunEndedAfterRoles =>
        /\ pc = "done"
        /\ result.status = "ok"
        /\ DOMAIN result \cap ClockFields = {}

\* C8: with a pool of four and any participant response texts, run_debate
\* ends with a DebateResult holding roles, preferences, solutions, reviews,
\* refined solutions and a judgment; no stage raises.
C8_RunCompletes ==
    /\ problem # "none" => raised = "none"
    /\ RunEnded =>
          /\ pc = "done"
          /\ result.status = "ok"
          /\ DOMAIN result = {"status", "roles", "preferences", "original_solutions",
                              "peer_reviews", "refined_solutions", "judgment"}

\* C9: when the provider call for one participant raises during any stage,
\* the stage still produces a record for that participant's key, and the
\* remaining calls of the stage and all later stages still run.
C9_ProviderFailureTolerated ==
    (RunEndedAfterRoles /\ \E i \in 1..Len(calls) : calls[i].failed) =>
        /\ raised = "none"
        /\ pc = "done"
        /\ \A i \in 1..Len(calls) : calls[i].failed => HasRecord(calls[i])

\* C22: when the problem source cannot supply the problem (the id is not
\* in the dataset, or the dataset is missing), run_debate ends with an
\* error before any participant is called and returns no DebateResult; it
\* never works on a substituted problem.
C22_MissingProblemAborts ==
    /\ problem # "substituted"
    /\ (pc = "raised" /\ problem = "none") =>
          /\ calls = <<>>
          /\ result = NoResult

\* the calls of a stage issued to a participant
Count(stage, who) ==
    Cardinality({i \in 1..Len(calls) : calls[i].stage = stage /\ calls[i].who = who})

\* C23: in one run_debate every participant is called exactly once for its
\* role preference, every solver exactly once for its solution and once
\* for its refinement and once for the review of each other solver, and
\* the judge exactly once for the judgment; no call is repeated.
C23_EachCallExactlyOnce ==
    /\ \A i, j \in 1..Len(calls) :
          (i < j /\ calls[i].stage = calls[j].stage /\ calls[i].who = calls[j].who)
              => calls[i].stage = "review"
    /\ RunEndedAfterRoles =>
          /\ \A p \in SeqToSet(gemini_instances) : Count("preference", p) = 1
          /\ \A s \in SeqToSet(roles.solvers) :
                /\ Count("solution", s) = 1
                /\ Count("review", s) = Len(roles.solvers) - 1
                /\ Count("refinement", s) = 1
          /\ Count("judgment", roles.judge) = 1

C28_OutputsKeyedBySolvers ==
    /\ \A m \in {solutions, reviews, refined_solutions} :
          /\ Keys(m) \subseteq SeqToSet(roles.solvers)
          /\ Distinct(KeyList(m))
    /\ RunEndedAfterRoles =>
          \A m \in {solutions, reviews, refined_solutions} :
              Keys(m) = SeqToSet(roles.solvers)

IdenticalPreferences ==
    \A i, j \in 1..Len(preferences) : preferences[i].v = preferences[j].v

\* C29: when all four participants report the same preferences, the first
\* participant of the pool is the judge and the other three, in pool
\* order, are the solvers.
C29_IdenticalPreferences ==
    (pc = "returned" /\ Len(preferences) = 4 /\ IdenticalPreferences) =>
        /\ roles.status = "ok"
        /\ roles.judge = preferences[1].k
        /\ roles.solvers = Tail(KeyList(preferences))

\* four participants that all qualify as judge with the same confidence,
\* assigned
C29_Witness ==
    /\ pc = "returned" /\ Len(preferences) = 4
    /\ \A i \in 1..4 : preferences[i].v = Pref({"Solver", "Judge"}, Conf(85, 80))
    /\ roles.status = "ok"
    /\ roles.judge = preferences[1].k

====
